---- MODULE Spec2Model ----
(***************************************************************************)
(* PangoT (src/app.py): the /sync handler and the fix table.               *)
(*                                                                         *)
(* The store is the two tables raw_bearings and calculated_fixes.  A sync  *)
(* request inserts its batch of observations, commits, then recomputes the *)
(* fix of every group named in the batch from all observations on file,    *)
(* and commits again.  Spec runs the handlers one request at a time;       *)
(* SpecConc runs two sync requests statement by statement, each in its own *)
(* database transaction (READ COMMITTED, as on the PostgreSQL deployment   *)
(* the DATABASE_URL setting selects).                                      *)
(*                                                                         *)
(* Abstracted: the numeric value of the projected coordinates and of the   *)
(* least-squares solution (pyproj / numpy are libraries); what is kept of  *)
(* the solve is what the handler branches on: whether it raised, the rank  *)
(* of the system and whether numpy returned a residual.                    *)
(***************************************************************************)
EXTENDS Integers, Sequences, FiniteSets, TLC

VARIABLES raw, fixes, nextFixId, last, sess

vars == <<raw, fixes, nextFixId, last, sess>>

\* ------------------------------------------------------------------ bounds
\* Rows the raw_bearings table may hold (a sync that would exceed it is not sent).
MaxRaw == 4
\* Records in one batch.
MaxBatch == 2

Min(a, b) == IF a < b THEN a ELSE b

\* ------------------------------------------------------------------ values
\* Python None / JSON null / SQL NULL in a numeric field, and a number in one.
None == <<>>
Num(x) == <<x>>

Groups == {"g1", "g2"}

\* Compass bearings the observers send (degrees), besides null.
Bearings == {0, 90, 180}

\* The keys a record of the batch may carry.
ItemKeys == {"group_id", "pango_id", "observer", "lat", "lon", "bearing", "accuracy", "time"}

\* A JSON object of the batch: the keys it has, and their values.
Item(g, p, b) ==
  [keys |-> ItemKeys, group_id |-> g, pango_id |-> p, observer |-> "MK",
   lat |-> Num(19), lon |-> Num(73), bearing |-> b, accuracy |-> Num(5), time |-> "T"]

Without(item, k) == [item EXCEPT !.keys = @ \ {k}]

\* Records that carry every key sync_data subscripts; a bearing may be null,
\* and one record leaves both optional keys out.
FullItems ==
  {Item("g1", "P01", b) : b \in {Num(x) : x \in Bearings} \cup {None}}
    \cup {Item("g2", "P02", Num(0)),
          Without(Without(Item("g2", "P01", Num(90)), "observer"), "accuracy")}

\* The keys sync_data reads with item[...]: a record lacking one raises KeyError.
SubscriptedKeys == {"group_id", "time", "pango_id", "lat", "lon", "bearing"}

\* Records with one subscripted key left out.
PartialItems == {Without(Item("g1", "P01", Num(90)), k) : k \in SubscriptedKeys}

Items == FullItems \cup PartialItems

\* ------------------------------------------------------------ pure helpers
\* Line 185: the set of group ids of the batch (read with item['group_id']).
unique_groups(batch) == {batch[i].group_id : i \in DOMAIN batch}

\* The order in which one record's keys are subscripted inside the loop
\* (lines 191-199); group_id was already read for every record at line 185.
LoopKeyOrder == <<"time", "group_id", "pango_id", "lat", "lon", "bearing">>

Item_WithBearing(item) == [item EXCEPT !.keys = @ \cup {"bearing"}]

ItemKeyError(item) ==
  IF \A j \in DOMAIN LoopKeyOrder : LoopKeyOrder[j] \in item.keys THEN ""
  ELSE LoopKeyOrder[CHOOSE j \in DOMAIN LoopKeyOrder :
                      /\ LoopKeyOrder[j] \notin item.keys
                      /\ \A h \in 1..(j - 1) : LoopKeyOrder[h] \in item.keys]

\* The handler reading the bearing with item.get('bearing'): no KeyError for it.
KeyErrorOf_GetBearing(batch) ==
  IF \E i \in DOMAIN batch : "group_id" \notin batch[i].keys THEN "group_id"
  ELSE IF \A i \in DOMAIN batch : ItemKeyError(Item_WithBearing(batch[i])) = "" THEN ""
  ELSE "KeyError"

\* The KeyError sync_data raises before add_all, "" when it raises none.
KeyErrorOf(batch) ==
  IF \E i \in DOMAIN batch : "group_id" \notin batch[i].keys THEN "group_id"
  ELSE IF \A i \in DOMAIN batch : ItemKeyError(batch[i]) = "" THEN ""
  ELSE ItemKeyError(batch[CHOOSE i \in DOMAIN batch :
                            /\ ItemKeyError(batch[i]) # ""
                            /\ \A h \in 1..(i - 1) : ItemKeyError(batch[h]) = ""])

\* item.get(k, default)
Get(item, k, default) == IF k \in item.keys THEN item[k] ELSE default

\* Lines 193-202: the RawBearing row built from one record.
RawBearing(item) ==
  [group_id |-> item.group_id, pango_id |-> item.pango_id,
   observer |-> Get(item, "observer", "--"),
   obs_lat |-> item.lat, obs_lon |-> item.lon, bearing |-> item.bearing,
   gps_accuracy |-> Get(item, "accuracy", Num(0))]

raw_bearings_to_add(batch) == [i \in DOMAIN batch |-> RawBearing(batch[i])]

\* np.sin / np.cos of a bearing that is a multiple of 90 degrees (the float
\* results differ from these by less than the cut-off lstsq applies to
\* singular values, so the rank below is the rank numpy reports).
SinDeg(b) == CASE b % 360 = 0 -> 0 [] b % 360 = 90 -> 1
               [] b % 360 = 180 -> 0 [] b % 360 = 270 -> -1
CosDeg(b) == CASE b % 360 = 0 -> 1 [] b % 360 = 90 -> 0
               [] b % 360 = 180 -> -1 [] b % 360 = 270 -> 0

\* Lines 78-80.
bearing_to_unit_vector(b) == <<SinDeg(b), CosDeg(b)>>

\* Lines 96-99: the row (dy, -dx) of A for one reading.
RowOfA(b) == <<bearing_to_unit_vector(b)[2], 0 - bearing_to_unit_vector(b)[1]>>

Det(r, q) == r[1] * q[2] - r[2] * q[1]

\* The rank np.linalg.lstsq reports for A (rows are unit vectors, never zero).
RankOfA(A) ==
  IF Len(A) = 0 THEN 0
  ELSE IF \E i, j \in DOMAIN A : Det(A[i], A[j]) # 0 THEN 2 ELSE 1

\* np.linalg.lstsq returns an empty residuals array when rank < N or M <= N.
HasResiduals(A) == RankOfA(A) = 2 /\ Len(A) > 2

\* Lines 90-100 raise TypeError on a None latitude, longitude or bearing.
Raises(readings) ==
  \E i \in DOMAIN readings :
    readings[i][1] = None \/ readings[i][2] = None \/ readings[i][3] = None

\* Lines 82-117: a tuple (lat, lon, error_score), or the "Math Error" string
\* when anything inside raised.  error_score is 0.0 unless lstsq returned a
\* residual.
perform_triangulation(readings) ==
  IF Raises(readings)
  THEN [tuple |-> FALSE, rank |-> 0, err |-> "", msg |-> "Math Error"]
  ELSE LET A == [i \in DOMAIN readings |-> RowOfA(readings[i][3][1])]
       IN [tuple |-> TRUE, rank |-> RankOfA(A),
           err |-> IF HasResiduals(A) THEN "rms" ELSE "0.0", msg |-> ""]

\* ------------------------------------------------- the per-group recompute
FixesOf(F, g) == {f \in F : f.group_id = g}

Ids(F) == {f.id : f \in F}

\* A session's open transaction: the fix ids its DELETEs removed, the fixes
\* it added, the messages collected, the next id of the fix id sequence and
\* the exception that aborted it ("" while none has).
NewTx(next) == [dels |-> {}, adds |-> {}, results |-> <<>>, next |-> next, exc |-> ""]

\* The query without its filter: every row of the table.
readings_query_Unfiltered(rawC, gid) ==
  rawC[gid] \o rawC[CHOOSE g \in Groups : g # gid]

\* Line 209: RawBearing.query.filter_by(group_id=gid).all()
readings_query(rawC, gid) == rawC[gid]

\* Line 211.
readings_list(rq) == [i \in DOMAIN rq |-> <<rq[i].obs_lat, rq[i].obs_lon, rq[i].bearing>>]

\* A gate that lets a single reading through.
TooFew_One(n) == n < 1

\* Line 213: the cardinality gate.
TooFew(n) == n < 2

\* The old fix is never deleted.
CleanUpOldFix_Never(tx, gid, fixesC, res) == tx

\* The old fix is deleted only once the solve has succeeded.
CleanUpOldFix_OnSuccess(tx, gid, fixesC, res) ==
  IF res.tuple
  THEN [tx EXCEPT !.dels = @ \cup {f.id : f \in {g \in fixesC : g.group_id = gid}},
                  !.adds = {a \in @ : a.group_id # gid}]
  ELSE tx

\* A failed solve rolls the session back before going on.
CleanUpOldFix_RollbackOnFailure(tx, gid, fixesC, res) ==
  IF res.tuple
  THEN [tx EXCEPT !.dels = @ \cup {f.id : f \in {g \in fixesC : g.group_id = gid}},
                  !.adds = {a \in @ : a.group_id # gid}]
  ELSE [tx EXCEPT !.dels = {}, !.adds = {}]

\* Line 221: CalculatedFix.query.filter_by(group_id=gid).delete(), run whatever
\* the solve returned.
CleanUpOldFix(tx, gid, fixesC, res) ==
  [tx EXCEPT !.dels = @ \cup {f.id : f \in {g \in fixesC : g.group_id = gid}},
             !.adds = {a \in @ : a.group_id # gid}]

\* Lines 226-230: the error score is part of the note for more than 2 readings.
NoteOf(n, res) ==
  IF n > 2
  THEN IF res.err = "0.0" THEN "Least Squares (Err: 0.0m)" ELSE "Least Squares (Err: rms m)"
  ELSE "Least Squares (2-Line Fix)"

\* Lines 232-239.
CalculatedFix(id, gid, rq, n, res) ==
  [id |-> id, group_id |-> gid, pango_id |-> rq[1].pango_id, note |-> NoteOf(n, res)]

\* Lines 214, 241, 243: a message of the response: its mark (pending, ok or
\* warn), the group, the number of readings the iteration had, and the error
\* score or error text it prints.
Msg(icon, gid, n, text) == [icon |-> icon, gid |-> gid, n |-> n, text |-> text]

\* Lines 208-243: one iteration of the loop over unique_groups, on the committed
\* tables as the session sees them.  dbFails: the storage raises at the query.
ProcessGroup(tx, gid, rawC, fixesC, dbFails) ==
  IF tx.exc # "" THEN tx
  ELSE IF dbFails THEN [tx EXCEPT !.exc = "OperationalError"]
  ELSE
    LET rq == readings_query(rawC, gid)
        rl == readings_list(rq)
        n == Len(rl)
    IN IF TooFew(n)
       THEN [tx EXCEPT !.results = Append(@, Msg("pending", gid, n, "Saved"))]
       ELSE
         LET res == perform_triangulation(rl)
             cleaned == CleanUpOldFix(tx, gid, fixesC, res)
         IN IF res.tuple
            THEN [cleaned EXCEPT
                    !.adds = @ \cup {CalculatedFix(tx.next, gid, rq, n, res)},
                    !.next = @ + 1,
                    !.results = Append(@, Msg("ok", gid, n, res.err))]
            ELSE [cleaned EXCEPT !.results = Append(@, Msg("warn", gid, n, res.msg))]

\* The loop of line 207 over `order`, an iteration order of the set
\* unique_groups; failK > 0: the storage raises at the query of the failK-th group.
RECURSIVE RunGroups(_, _, _, _, _, _)
RunGroups(tx, order, i, failK, rawC, fixesC) ==
  IF i > Len(order) THEN tx
  ELSE RunGroups(ProcessGroup(tx, order[i], rawC, fixesC, i = failK),
                 order, i + 1, failK, rawC, fixesC)

\* The table after a session's transaction commits.
Committed(fixesC, tx) == {f \in fixesC : f.id \notin tx.dels} \cup tx.adds

\* The iteration orders of a set of group ids (Python's set order is arbitrary).
Orders(S) ==
  {o \in [1..Cardinality(S) -> S] : \A i, j \in DOMAIN o : i # j => o[i] # o[j]}

\* ------------------------------------------------------------ the handlers
\* raw_bearings is kept by group_id, each group's rows in insertion order:
\* every query of the handlers modelled here filters on group_id.
EmptyRaw == [g \in Groups |-> <<>>]

\* Lines 203-204: db.session.add_all(raw_bearings_to_add), committed.
InsertRows(rawC, rows) ==
  [g \in Groups |-> rawC[g] \o SelectSeq(rows, LAMBDA r : r.group_id = g)]

RECURSIVE SumLen(_, _)
SumLen(rawC, S) ==
  IF S = {} THEN 0
  ELSE LET g == CHOOSE x \in S : TRUE IN Len(rawC[g]) + SumLen(rawC, S \ {g})

RowCount(rawC) == SumLen(rawC, Groups)

\* What a request left behind: the JSON response and, for the properties, a
\* summary of the request (for a sync: the position of the first record lacking
\* a key the handler subscripts, the keys the batch's records lack, the group
\* ids it names, the injected storage failure) and the two tables as they were
\* when the request arrived.
Response(op, status, message, results, batch, fail, preRaw, preFixes) ==
  [op |-> op, status |-> status, message |-> message, results |-> results,
   firstBad |-> IF \A i \in DOMAIN batch : SubscriptedKeys \subseteq batch[i].keys
                THEN 0
                ELSE CHOOSE i \in DOMAIN batch :
                       /\ ~(SubscriptedKeys \subseteq batch[i].keys)
                       /\ \A h \in 1..(i - 1) : SubscriptedKeys \subseteq batch[h].keys,
   missing |-> UNION {ItemKeys \ batch[i].keys : i \in DOMAIN batch},
   groups |-> IF status = "success" THEN unique_groups(batch) ELSE {},
   fail |-> fail, preRaw |-> preRaw, preFixes |-> preFixes]

\* Where the storage may raise during a sync: at the first commit (line 204),
\* at the query of the k-th group (line 209), at the final commit (line 245).
NoFail == [at |-> "none", k |-> 0]

FailPoints(order) ==
  {NoFail, [at |-> "commit1", k |-> 0], [at |-> "commit2", k |-> 0]}
    \cup {[at |-> "query", k |-> k] : k \in DOMAIN order}

\* Lines 181-250: the whole /sync request, run alone.  The result is the two
\* tables, the fix id sequence and the response.  (Ids drawn by a transaction
\* that rolled back were never visible; the sequence is left where it was.)
sync_data(batch, order, fail, rawC, fixesC, next) ==
  LET kerr == KeyErrorOf(batch)
      err(msg, r) ==
        [raw |-> r, fixes |-> fixesC, next |-> next,
         resp |-> Response("sync", "error", msg, <<>>, batch, fail.at, rawC, fixesC)]
  IN IF kerr # "" THEN err(kerr, rawC)
     ELSE IF fail.at = "commit1" THEN err("OperationalError", rawC)
     ELSE
       LET raw1 == InsertRows(rawC, raw_bearings_to_add(batch))
           tx == RunGroups(NewTx(next), order, 1, fail.k, raw1, fixesC)
       IN IF tx.exc # "" THEN err(tx.exc, raw1)
          ELSE IF fail.at = "commit2" THEN err("OperationalError", raw1)
          ELSE [raw |-> raw1, fixes |-> Committed(fixesC, tx), next |-> tx.next,
                resp |-> Response("sync", "success", "", tx.results, batch, fail.at,
                                  rawC, fixesC)]

\* Lines 271-281.
delete_fix(fix_id, dbFails, fixesC) ==
  IF dbFails THEN [fixes |-> fixesC, status |-> "error"]
  ELSE IF \E f \in fixesC : f.id = fix_id
  THEN [fixes |-> {f \in fixesC : f.id # fix_id}, status |-> "deleted"]
  ELSE [fixes |-> fixesC, status |-> "not found"]

\* The bodies /api/update_fix is sent: a key may be left out.
UpdateBodies ==
  {[keys |-> {"note"}, pango_id |-> "", note |-> "checked"],
   [keys |-> {"pango_id", "note"}, pango_id |-> "P09", note |-> "checked"]}

\* Lines 286-298.
update_fix(fix_id, data, dbFails, fixesC) ==
  IF dbFails THEN [fixes |-> fixesC, status |-> "error"]
  ELSE IF \E f \in fixesC : f.id = fix_id
  THEN [fixes |-> {IF f.id = fix_id
                   THEN [f EXCEPT !.pango_id = Get(data, "pango_id", @),
                                  !.note = Get(data, "note", @)]
                   ELSE f : f \in fixesC},
        status |-> "updated"]
  ELSE [fixes |-> fixesC, status |-> "not found"]

\* ------------------------------------------------------------------- state
Reqs == {1, 2}

\* No response is waiting to be sent: the worker is free for the next request.
NoResponse == Response("none", "", "", <<>>, <<>>, "none", EmptyRaw, {})

IdleSession == [pc |-> "idle", todo |-> {}, tx |-> NewTx(0)]

Init ==
  /\ raw = EmptyRaw
  /\ fixes = {}
  /\ nextFixId = 1
  /\ last = NoResponse
  /\ sess = [r \in Reqs |-> IdleSession]

\* The batches a client sends: up to n records.
Batches(n) == UNION {[1..m -> Items] : m \in 0..n}

\* POST /sync, one request at a time.
SyncData ==
  /\ last = NoResponse
  /\ \E batch \in Batches(Min(MaxBatch, MaxRaw - RowCount(raw))) :
       \E order \in Orders(IF KeyErrorOf(batch) = "" THEN unique_groups(batch) ELSE {}) :
         \E fail \in IF KeyErrorOf(batch) = "" THEN FailPoints(order) ELSE {NoFail} :
           \E out \in {sync_data(batch, order, fail, raw, fixes, nextFixId)} :
             /\ raw' = out.raw
             /\ fixes' = out.fixes
             /\ nextFixId' = out.next
             /\ last' = out.resp
             /\ UNCHANGED sess

\* DELETE /api/delete_fix/<fix_id>
DeleteFix ==
  /\ last = NoResponse
  /\ \E fix_id \in 1..nextFixId, dbFails \in BOOLEAN :
       \E out \in {delete_fix(fix_id, dbFails, fixes)} :
         /\ fixes' = out.fixes
         /\ last' = Response("delete_fix", out.status, "", <<>>, <<>>, "none", raw, fixes)
         /\ UNCHANGED <<raw, nextFixId, sess>>

\* POST /api/update_fix/<fix_id>
UpdateFix ==
  /\ last = NoResponse
  /\ \E fix_id \in 1..nextFixId, data \in UpdateBodies, dbFails \in BOOLEAN :
       \E out \in {update_fix(fix_id, data, dbFails, fixes)} :
         /\ fixes' = out.fixes
         /\ last' = Response("update_fix", out.status, "", <<>>, <<>>, "none", raw, fixes)
         /\ UNCHANGED <<raw, nextFixId, sess>>

\* The response is sent to the client.
Deliver ==
  /\ last # NoResponse
  /\ last' = NoResponse
  /\ UNCHANGED <<raw, fixes, nextFixId, sess>>

Next == SyncData \/ DeleteFix \/ UpdateFix \/ Deliver

Spec == Init /\ [][Next]_vars

\* ------------------------------------------------- two concurrent syncs
\* Each request of Reqs runs sync_data in its own database session; the steps
\* are the handler's statements that reach the database.  A statement sees what
\* is committed when it runs (READ COMMITTED) and the session's own writes; the
\* fix id sequence is shared and is not rolled back.

\* Lines 183-204: a request arrives, its rows are inserted and committed.
\* (A batch that raises KeyError, or a failing first commit, changes nothing.)
SyncBegin(r) ==
  /\ sess[r].pc = "idle"
  /\ \E batch \in Batches(Min(MaxBatch, MaxRaw - RowCount(raw))) :
       /\ KeyErrorOf(batch) = ""
       /\ raw' = InsertRows(raw, raw_bearings_to_add(batch))
       /\ sess' = [sess EXCEPT ![r] = [pc |-> "loop", todo |-> unique_groups(batch),
                                       tx |-> NewTx(0)]]
  /\ UNCHANGED <<fixes, nextFixId, last>>

\* The fix rows of group gid that another session has deleted and not yet
\* committed: a DELETE reaching one waits for that session to end.
LockedByOther(r, gid) ==
  \E q \in Reqs \ {r} : Ids(FixesOf(fixes, gid)) \cap sess[q].tx.dels # {}

\* Lines 208-243: one iteration of the loop, for any group still to do.
SyncGroup(r) ==
  /\ sess[r].pc = "loop"
  /\ \E gid \in sess[r].todo :
       /\ ~LockedByOther(r, gid)
       /\ \E tx \in {ProcessGroup([sess[r].tx EXCEPT !.next = nextFixId],
                                  gid, raw, fixes, FALSE)} :
            /\ nextFixId' = tx.next
            /\ sess' = [sess EXCEPT ![r].tx = tx, ![r].todo = @ \ {gid}]
  /\ UNCHANGED <<raw, fixes, last>>

\* Line 245: db.session.commit()
SyncCommit(r) ==
  /\ sess[r].pc = "loop"
  /\ sess[r].todo = {}
  /\ fixes' = Committed(fixes, sess[r].tx)
  /\ sess' = [sess EXCEPT ![r] = IdleSession]
  /\ UNCHANGED <<raw, nextFixId, last>>

\* Lines 247-248: the storage raised in the loop or at the commit; rollback.
SyncRollback(r) ==
  /\ sess[r].pc = "loop"
  /\ sess' = [sess EXCEPT ![r] = IdleSession]
  /\ UNCHANGED <<raw, fixes, nextFixId, last>>

NextConc ==
  \E r \in Reqs : SyncBegin(r) \/ SyncGroup(r) \/ SyncCommit(r) \/ SyncRollback(r)

SpecConc == Init /\ [][NextConc]_vars

\* ------------------------------------------------------------ properties
Range(f) == {f[i] : i \in DOMAIN f}

SyncDone == last.op = "sync"

SyncOK == last.op = "sync" /\ last.status = "success"

Entries == Range(last.results)

EntriesOf(g) == {i \in DOMAIN last.results : last.results[i].gid = g}

\* The fields the specification requires of a record.
SpecRequired == {"group_id", "pango_id", "lat", "lon", "bearing"}

\* C1: with requests handled one at a time (syncs, delete_fix, update_fix), the
\* fix table never holds two fixes of one group; and after a sync that resolved
\* a group which already had a fix, the group has exactly one fix, a new row,
\* the old row being gone.
C1_AtMostOneFixPerGroup ==
  /\ \A g \in Groups : Cardinality(FixesOf(fixes, g)) <= 1
  /\ SyncOK =>
       \A e \in Entries :
         (e.icon = "ok" /\ FixesOf(last.preFixes, e.gid) # {}) =>
           /\ Cardinality(FixesOf(fixes, e.gid)) = 1
           /\ Ids(FixesOf(fixes, e.gid)) \cap Ids(last.preFixes) = {}

C1_Witness ==
  /\ SyncOK
  /\ \E e \in Entries :
       /\ e.icon = "ok"
       /\ FixesOf(last.preFixes, e.gid) # {}
       /\ Cardinality(FixesOf(fixes, e.gid)) = 1

\* C2: with two sync requests running concurrently, each in its own
\* transaction, the committed fix table never holds two fixes of one group.
C2_ConcurrentSyncsKeepOneFix ==
  \A g \in Groups : \A f, h \in FixesOf(fixes, g) : f.id = h.id

\* C3: a sync that ended in a storage failure left both tables as they were
\* when it arrived.
C3_StorageFailureRollsBackBatch ==
  (SyncDone /\ last.fail # "none" /\ last.status = "error") =>
    (raw = last.preRaw /\ fixes = last.preFixes)

\* C4: a sync whose batch has a record lacking a required field, at whatever
\* position, reports an error and leaves both tables as they were.
C4_MissingRequiredCommitsNothing ==
  (SyncDone /\ last.missing \cap SpecRequired # {}) =>
    /\ last.status = "error"
    /\ raw = last.preRaw
    /\ fixes = last.preFixes

C4_Witness ==
  /\ SyncDone
  /\ "bearing" \in last.missing
  /\ last.firstBad = 2
  /\ last.status = "error"
  /\ raw = last.preRaw

\* Exactly two observations, with bearings differing by 0 or 180 degrees.
ParallelPair(rows) ==
  /\ Len(rows) = 2
  /\ rows[1].bearing # None
  /\ rows[2].bearing # None
  /\ (rows[1].bearing[1] - rows[2].bearing[1]) % 180 = 0

\* C5: after a successful sync, a group of the batch whose observations on file
\* are exactly two with bearings differing by 0 or 180 degrees is reported
\* failed and has no fix.
C5_ParallelPairFails ==
  SyncOK =>
    \A g \in last.groups :
      ParallelPair(raw[g]) =>
        /\ \A i \in EntriesOf(g) :
             last.results[i].icon = "warn" /\ last.results[i].text # "0.0"
        /\ FixesOf(fixes, g) = {}

\* C6: no fix exists for a group with fewer than 2 observations on file; a
\* successful sync reports exactly the groups with fewer than 2 observations
\* as pending, with their count, and a fix row that was not there before the
\* request belongs to a group the sync resolved from at least 2 observations.
C6_NoFixBelowTwoObservations ==
  /\ \A f \in fixes : Len(raw[f.group_id]) >= 2
  /\ SyncOK =>
       \A e \in Entries :
         /\ (e.icon = "pending") <=> (Len(raw[e.gid]) < 2)
         /\ e.icon = "pending" => (e.n = Len(raw[e.gid]) /\ FixesOf(fixes, e.gid) = {})
  /\ last.op # "none" =>
       \A f \in fixes :
         f.id \notin Ids(last.preFixes) =>
           /\ SyncOK
           /\ \E e \in Entries : e.gid = f.group_id /\ e.icon = "ok" /\ e.n >= 2

C6_Witness ==
  /\ SyncOK
  /\ \E e \in Entries : e.icon = "pending" /\ e.n = 1 /\ FixesOf(fixes, e.gid) = {}
  /\ \E e \in Entries : e.icon = "ok"

\* C7: a sync with no record lacking a key and no storage failure succeeds
\* whatever the solves return, with exactly one entry per group of the batch,
\* and every group reported resolved has its new fix in the table.
C7_SolverFailureDoesNotAbort ==
  (SyncDone /\ last.firstBad = 0 /\ last.fail = "none") =>
    /\ last.status = "success"
    /\ Len(last.results) = Cardinality(last.groups)
    /\ \A g \in last.groups : Cardinality(EntriesOf(g)) = 1
    /\ \A e \in Entries :
         /\ e.icon \in {"pending", "ok", "warn"}
         /\ e.icon = "ok" =>
              \E f \in FixesOf(fixes, e.gid) : f.id \notin Ids(last.preFixes)

C7_Witness ==
  /\ SyncOK
  /\ \E e, d \in Entries :
       /\ e.icon = "warn"
       /\ d.icon = "ok"
       /\ d.gid # e.gid
       /\ FixesOf(fixes, d.gid) # {}

\* C8: a sync whose records lack only optional fields (timestamp, observer
\* name, GPS accuracy), with no storage failure, is accepted.
C8_OptionalFieldsMayBeOmitted ==
  (SyncDone /\ last.missing # {} /\ last.missing \cap SpecRequired = {}
     /\ last.fail = "none") =>
    last.status = "success"

\* C9: after a successful sync, a group whose solve failed (over at least 2
\* observations) has no fix, and the fixes of groups not in the batch are the
\* ones that were there before.
C9_FailedSolveLeavesNoFix ==
  SyncOK =>
    /\ \A e \in Entries : e.icon = "warn" => (e.n >= 2 /\ FixesOf(fixes, e.gid) = {})
    /\ \A g \in Groups \ last.groups : FixesOf(fixes, g) = FixesOf(last.preFixes, g)

C9_Witness ==
  /\ SyncOK
  /\ \E e \in Entries :
       /\ e.icon = "warn"
       /\ FixesOf(last.preFixes, e.gid) # {}
       /\ FixesOf(fixes, e.gid) = {}

\* C10: a successful sync evaluates exactly the groups named in its batch, each
\* over all the observations on file for it (earlier batches' and its own);
\* groups not named get no entry and keep their fixes.
C10_RecomputeFromAllOnFile ==
  SyncOK =>
    /\ \A e \in Entries : e.gid \in last.groups /\ e.n = Len(raw[e.gid])
    /\ \A g \in last.groups : EntriesOf(g) # {}
    /\ \A g \in last.groups : Len(raw[g]) >= Len(last.preRaw[g]) + 1
    /\ \A g \in Groups \ last.groups :
         /\ EntriesOf(g) = {}
         /\ raw[g] = last.preRaw[g]
         /\ FixesOf(fixes, g) = FixesOf(last.preFixes, g)

C10_Witness ==
  /\ SyncOK
  /\ \E e \in Entries :
       /\ e.icon = "ok"
       /\ e.n = 2
       /\ Len(last.preRaw[e.gid]) = 1
       /\ \E g \in Groups \ last.groups : Len(raw[g]) >= 1

====
